---- MODULE Spec2Model ----
(***************************************************************************)
(* Model of the geojson-map front end (the multi-category variant,         *)
(* src/unnamed/part_002 lines 186-772, and src/script.js where the two     *)
(* agree): the highlight controller with its expiry timers, the category   *)
(* table built from a CSV response, the colour rule built from it and the  *)
(* search box; of the generator of the search index                        *)
(* (src/unnamed/part_004); of the mapshaper preprocessing command          *)
(* (src/unnamed/part_000); and of the tile build script                    *)
(* (src/scripts/build-pmtiles.sh, src/unnamed/part_003).                   *)
(*                                                                         *)
(* Strings that the code inspects (headers, cells, member names) are       *)
(* sequences of one-character strings, so that trim, includes and concat   *)
(* are computed, not assumed.  Time is counted in seconds: setTimeout's    *)
(* 5000 ms is HighlightDuration = 5.  A timer callback runs when its delay *)
(* has elapsed; time does not pass a due timer.  Calls into the map        *)
(* library are taken to succeed (the style is loaded when a search result  *)
(* is clicked).                                                            *)
(***************************************************************************)
EXTENDS Integers, Sequences, FiniteSets, TLC

VARIABLES
    highlightedCode,   \* part_002:229  let highlightedCode = null
    hlLayer,           \* whether the layer 'municipality-highlight' exists
    hlFilter,          \* the code its filter ['==','N03_007',code] selects
    timers,            \* pending setTimeout callbacks, in arming order
    sinceLast,         \* seconds since the last highlightMunicipality call
    specifiedCities,   \* part_002:203  Map header -> Set of names
    CsvHeaderColors,   \* part_002:206  Map header -> colour
    fillLayer,         \* whether the layer 'municipality-fill' exists
    fillColor,         \* its 'fill-color' paint property
    controlKeys,       \* the keys SelectedColorControl shows an input for
    loadBtnDisabled,   \* loadBtn.disabled
    inflight,          \* responses of the loadSpreadsheet calls in flight
    newest,            \* what became of the most recently requested load
    geojson,           \* part_004:214  the raw feature collection read
    searchData,        \* part_002:226  the search index (search-data.json)
    searchInput,       \* the value of the 'search-input' field
    searchResults,     \* the content of the 'search-results' panel
    cityCount,         \* the text of the 'city-count' element
    boot,              \* init(): its await, its listeners, the map's 'load'
    output,            \* the file written by the preprocessing command
    build,             \* the run of build-pmtiles.sh
    lastOp             \* the handler that ran last, and its argument

hlVars == <<highlightedCode, hlLayer, hlFilter, timers, sinceLast>>
tableVars == <<specifiedCities, CsvHeaderColors, fillLayer, fillColor,
               controlKeys, loadBtnDisabled, inflight, newest>>
indexVars == <<geojson, searchData, searchInput, searchResults>>
pageVars == <<cityCount, boot>>
scriptVars == <<output, build>>
vars == <<hlVars, tableVars, indexVars, pageVars, scriptVars, lastOp>>

(***************************************************************************)
(* Bounds of the model.                                                    *)
(***************************************************************************)
MaxTimers == 3
MaxCells == 3
WideCols == 9
MaxColored == 1
MaxInflight == 2
IndexSize == 12
MaxPolygons == 2
MaxFeatures == 2
Resolution == 10

(***************************************************************************)
(* Highlight controller: part_002:734-772, script.js:478-516.              *)
(***************************************************************************)
NoCode == "null"
NoFilter == ""
Codes == {"13101", "13102"}
HighlightDuration == 5

Op(name, arg) == [op |-> name, arg |-> arg]

\* ArmTimer with the delay one second too long.
ArmTimerLate(ts, code) ==
    Append(ts, [code |-> code, remaining |-> HighlightDuration + 1])

\* setTimeout(() => {...}, 5000): a pending callback closed over `code`.
ArmTimer(ts, code) == Append(ts, [code |-> code, remaining |-> HighlightDuration])

\* clearHighlight() leaving the filter as it is.
ClearedFilterKept(layer, filter) == filter

\* clearHighlight(): highlightedCode = null; the filter is reset only when the
\* layer exists.  The pending timers are left alone.
ClearedFilter(layer, filter) == IF layer THEN NoFilter ELSE filter

\* The timer callback without its guard.
TimerClearsAlways(active, code) == TRUE

\* The timer callback: if (highlightedCode === code) clearHighlight();
TimerClears(active, code) == active = code

\* What highlightMunicipality(code) does to the highlight.
Highlighted(code) ==
    /\ Len(timers) < MaxTimers
    /\ highlightedCode' = code
    /\ hlLayer' = TRUE
    /\ hlFilter' = code
    /\ timers' = ArmTimer(timers, code)
    /\ sinceLast' = 0
    /\ lastOp' = Op("highlight", code)

highlightMunicipality(code) ==
    /\ Highlighted(code)
    /\ UNCHANGED <<tableVars, indexVars, pageVars, scriptVars>>

\* What clearHighlight() does to the highlight.
HighlightCleared ==
    /\ highlightedCode' = NoCode
    /\ hlFilter' = ClearedFilter(hlLayer, hlFilter)
    /\ UNCHANGED <<hlLayer, timers, sinceLast>>

clearHighlight ==
    /\ HighlightCleared
    /\ lastOp' = Op("clear", NoCode)
    /\ UNCHANGED <<tableVars, indexVars, pageVars, scriptVars>>

\* The oldest pending callback runs once its delay has elapsed.
TimerFire ==
    /\ Len(timers) > 0
    /\ timers[1].remaining = 0
    /\ timers' = Tail(timers)
    /\ IF TimerClears(highlightedCode, timers[1].code)
       THEN /\ highlightedCode' = NoCode
            /\ hlFilter' = ClearedFilter(hlLayer, hlFilter)
       ELSE UNCHANGED <<highlightedCode, hlFilter>>
    /\ lastOp' = Op("timer", timers[1].code)
    /\ UNCHANGED <<hlLayer, sinceLast, tableVars, indexVars, pageVars, scriptVars>>

\* One second passes; not while a callback is due.
Tick ==
    /\ \A i \in 1..Len(timers) : timers[i].remaining > 0
    /\ timers' = [i \in 1..Len(timers) |->
                    [timers[i] EXCEPT !.remaining = @ - 1]]
    /\ sinceLast' = IF sinceLast > HighlightDuration THEN sinceLast ELSE sinceLast + 1
    /\ lastOp' = Op("tick", NoCode)
    /\ UNCHANGED <<highlightedCode, hlLayer, hlFilter, tableVars, indexVars, pageVars, scriptVars>>

(***************************************************************************)
(* Strings.  A string is a sequence of characters; " " is white space.     *)
(* "to","do","fu","ken" stand for the four characters of the header token  *)
(* that marks a prefecture column (part_002:363).                          *)
(***************************************************************************)
PrefToken == <<"to", "do", "fu", "ken">>

\* String.prototype.includes: `needle` occurs in `s` at some offset.
Includes(s, needle) ==
    \E k \in 0..(Len(s) - Len(needle)) :
        \A j \in 1..Len(needle) : s[k + j] = needle[j]

IsSpace(c) == c = " "

RECURSIVE TrimStart(_)
TrimStart(s) ==
    IF s # <<>> /\ IsSpace(Head(s)) THEN TrimStart(Tail(s)) ELSE s

RECURSIVE TrimEnd(_)
TrimEnd(s) ==
    IF s # <<>> /\ IsSpace(s[Len(s)]) THEN TrimEnd(SubSeq(s, 1, Len(s) - 1)) ELSE s

\* String.prototype.trim
Trim(s) == TrimEnd(TrimStart(s))

(***************************************************************************)
(* A JavaScript Map as a sequence of entries in insertion order.           *)
(***************************************************************************)
MapKeys(m) == [i \in 1..Len(m) |-> m[i].key]

MapHas(m, k) == \E i \in 1..Len(m) : m[i].key = k

MapIndex(m, k) == CHOOSE i \in 1..Len(m) : m[i].key = k

\* Map.prototype.set: an existing key keeps its position.
MapSet(m, k, v) ==
    IF MapHas(m, k)
    THEN [m EXCEPT ![MapIndex(m, k)].members = v]
    ELSE Append(m, [key |-> k, members |-> v])

\* specifiedCities.get(key) || new Set()
MembersOrEmpty(m, k) == IF MapHas(m, k) THEN m[MapIndex(m, k)].members ELSE {}

(***************************************************************************)
(* loadCSV, part_002:347-385.  Papa.parse(csvText, {header: true}) gives   *)
(* one object per line: the line's fields under the header names, in       *)
(* header order; a line with fewer fields than the header lacks the later  *)
(* keys, and a line with more fields carries them as an array under the    *)
(* extra key '__parsed_extra', which Object.keys lists last.               *)
(* A row is [cells |-> the fields under the headers, extra |-> BOOLEAN].   *)
(***************************************************************************)

\* The inner forEach body storing the cell as it is, untrimmed.
AddCellUntrimmed(table, key, cell) ==
    IF Includes(key, PrefToken)
    THEN table
    ELSE IF cell # <<>> /\ Trim(cell) # <<>>
         THEN MapSet(table, key, MembersOrEmpty(table, key) \cup {cell})
         ELSE table

\* One pass of the inner forEach body (part_002:360-376) for a header key.
AddCell(table, key, cell) ==
    IF Includes(key, PrefToken)
    THEN table
    ELSE IF cell # <<>> /\ Trim(cell) # <<>>
         THEN MapSet(table, key, MembersOrEmpty(table, key) \cup {Trim(cell)})
         ELSE table

RECURSIVE AddCells(_, _, _, _)
AddCells(table, headers, cells, i) ==
    IF i > Len(cells)
    THEN table
    ELSE AddCells(AddCell(table, headers[i], cells[i]), headers, cells, i + 1)

\* The extra key holds an array: it is truthy and has no trim method, so
\* cityName.trim() (part_002:372) throws a TypeError once the row's header
\* keys have been handled.
RowThrows(row) == row.extra

\* results.data.forEach(...), stopping at the row that throws.
RECURSIVE ForEachRow(_, _, _, _)
ForEachRow(table, headers, rows, r) ==
    IF r > Len(rows)
    THEN [table |-> table, threw |-> FALSE]
    ELSE LET t == AddCells(table, headers, rows[r].cells, 1)
         IN  IF RowThrows(rows[r])
             THEN [table |-> t, threw |-> TRUE]
             ELSE ForEachRow(t, headers, rows, r + 1)

\* The callback without its clear(): the new rows are merged into the old table.
NotCleared(table) == table

\* specifiedCities.clear() (part_002:358)
Cleared(table) == <<>>

\* The `complete` callback (part_002:357-379).
Complete(table, csv) == ForEachRow(Cleared(table), csv.headers, csv.rows, 1)

(***************************************************************************)
(* Colours: getDefaultColor (part_002:519-533) and buildColorExpression    *)
(* (part_002:536-571).                                                     *)
(***************************************************************************)
Palette == <<"#4a90d9", "#50e3c2", "#f5a623", "#9013fe",
             "#b8e986", "#ff6b35", "#8b572a", "#7ed321">>
Gray == "#cccccc"
Undefined == "undefined"

\* Array.prototype.indexOf over the Map's keys, zero-based, -1 when absent.
IndexOfKey(table, headerName) ==
    IF MapHas(table, headerName) THEN MapIndex(table, headerName) - 1 ELSE -1

\* getDefaultColor without the modulo: colors[index].
getDefaultColorNoWrap(table, headerName) ==
    LET index == IndexOfKey(table, headerName)
    IN  IF index < 0 \/ index >= Len(Palette) THEN Undefined ELSE Palette[index + 1]

\* colors[index % colors.length]; colors[-1] is undefined.
getDefaultColor(table, headerName) ==
    LET index == IndexOfKey(table, headerName)
    IN  IF index < 0 THEN Undefined ELSE Palette[(index % Len(Palette)) + 1]

\* CsvHeaderColors.get(headerName) || getDefaultColor(headerName)
ResolveColorDefaultOnly(table, colors, headerName) ==
    getDefaultColor(table, headerName)

ResolveColor(table, colors, headerName) ==
    IF headerName \in DOMAIN colors
    THEN colors[headerName]
    ELSE getDefaultColor(table, headerName)

\* The union `s` of all member sets (part_002:537-542).
AllMembers(table) == UNION {table[i].members : i \in 1..Len(table)}

NoPaint == [kind |-> "none", conds |-> <<>>, fallback |-> Undefined]

\* buildColorExpression pushing its conditions in reverse order.
buildColorExpressionReversed(table, colors) ==
    IF AllMembers(table) = {}
    THEN [kind |-> "literal", conds |-> <<>>, fallback |-> Gray]
    ELSE [kind |-> "case",
          conds |-> [i \in 1..Len(table) |->
                       [members |-> table[Len(table) + 1 - i].members,
                        color |-> ResolveColor(table, colors,
                                               table[Len(table) + 1 - i].key)]],
          fallback |-> Gray]

\* '#cccccc' when no name is listed, else ['case', cond1, color1, ..., '#cccccc'].
buildColorExpression(table, colors) ==
    IF AllMembers(table) = {}
    THEN [kind |-> "literal", conds |-> <<>>, fallback |-> Gray]
    ELSE [kind |-> "case",
          conds |-> [i \in 1..Len(table) |->
                       [members |-> table[i].members,
                        color |-> ResolveColor(table, colors, table[i].key)]],
          fallback |-> Gray]

\* ['coalesce', ['get', prop], '']
Coalesce(feature, prop) == IF prop \in DOMAIN feature THEN feature[prop] ELSE <<>>

\* The key of the single-set variant: ['get', 'N03_004'] alone.
MatchKeyCityOnly(feature) == Coalesce(feature, "N03_004")

\* ['concat', coalesce(N03_003), coalesce(N03_004)]  (part_002:559-562)
MatchKey(feature) == Coalesce(feature, "N03_003") \o Coalesce(feature, "N03_004")

\* The style expression evaluated for one feature: a literal colour, or a
\* 'case' whose first true ['in', key, ['literal', list]] gives the colour.
RECURSIVE EvalCase(_, _, _, _)
EvalCase(conds, fallback, key, i) ==
    IF i > Len(conds)
    THEN fallback
    ELSE IF key \in conds[i].members
         THEN conds[i].color
         ELSE EvalCase(conds, fallback, key, i + 1)

EvalFill(expr, feature) == EvalCase(expr.conds, expr.fallback, MatchKey(feature), 1)

(***************************************************************************)
(* loadSpreadsheet (part_002:388-423), the map's 'load' handler            *)
(* (part_002:505-511) and the colour inputs (part_002:287-300).            *)
(***************************************************************************)

\* updateMunicipalityLayer (part_002:426-432): repaint only when the layer exists.
Repainted(layer, paint, table, colors) ==
    IF layer THEN buildColorExpression(table, colors) ELSE paint

\* CsvHeaderColors.set(key, value)
ColorSet(colors, key, value) ==
    [k \in DOMAIN colors \cup {key} |-> IF k = key THEN value ELSE colors[k]]

RemoveAt(seq, i) == SubSeq(seq, 1, i - 1) \o SubSeq(seq, i + 1, Len(seq))

\* loadSpreadsheet up to its await: the button is disabled, the fetch starts.
StartLoad(resp) ==
    /\ loadBtnDisabled' = TRUE
    /\ inflight' = Append(inflight, resp)
    /\ newest' = "pending"

\* loadBtn 'click' (part_002:468-473), once init() has registered the
\* listener: a disabled button gets no click.
ClickLoad(responses) ==
    /\ boot.listening
    /\ ~loadBtnDisabled
    /\ \E resp \in responses : StartLoad(resp)
    /\ lastOp' = Op("startLoad", "click")
    /\ UNCHANGED <<specifiedCities, CsvHeaderColors, fillLayer, fillColor,
                   controlKeys, hlVars, indexVars, pageVars, scriptVars>>

\* 'keypress' of Enter in the URL field (part_002:476-483): loadSpreadsheet,
\* whatever the state of the button.
EnterLoad(responses) ==
    /\ boot.listening
    /\ Len(inflight) < MaxInflight
    /\ \E resp \in responses : StartLoad(resp)
    /\ lastOp' = Op("startLoad", "enter")
    /\ UNCHANGED <<specifiedCities, CsvHeaderColors, fillLayer, fillColor,
                   controlKeys, hlVars, indexVars, pageVars, scriptVars>>

\* init() after its await (part_002:443-516): the listeners are registered.
Listening == [listening |-> TRUE, mapLoaded |-> FALSE]

\* init() at its await of loadSearchData (part_002:443): no listener yet.
Awaiting == [listening |-> FALSE, mapLoaded |-> FALSE]

\* The map's 'load' event, fired once.  With the listener registered
\* (part_002:505-511): addMunicipalityLayer, then loadSpreadsheet(savedUrl).
\* Without it the event has no listener to run.
MapLoad(responses) ==
    /\ ~boot.mapLoaded
    /\ boot' = [boot EXCEPT !.mapLoaded = TRUE]
    /\ IF boot.listening
       THEN /\ fillLayer' = TRUE
            /\ fillColor' = buildColorExpression(specifiedCities, CsvHeaderColors)
            /\ \E resp \in responses : StartLoad(resp)
            /\ lastOp' = Op("mapLoad", "load")
            /\ UNCHANGED <<specifiedCities, CsvHeaderColors, controlKeys>>
       ELSE /\ lastOp' = Op("mapLoad", "unheard")
            /\ UNCHANGED tableVars
    /\ UNCHANGED <<hlVars, indexVars, cityCount, scriptVars>>

\* loadSearchData returns, with the index or after a failed fetch, and init()
\* goes on to register its listeners (part_002:443-511).
SearchDataArrives(indexes) ==
    /\ ~boot.listening
    /\ boot' = [boot EXCEPT !.listening = TRUE]
    /\ searchData' \in indexes
    /\ lastOp' = Op("init", "listening")
    /\ UNCHANGED <<hlVars, tableVars, geojson, searchInput, searchResults,
                   cityCount, scriptVars>>

\* cityCountEl.textContent: empty, or the text showing a number.
NoCount == <<>>
CountText(n) == <<n>>

\* What loadCSV leaves in specifiedCities, and whether it rejected.
LoadCSV(table, resp) ==
    IF resp.kind = "csv"
    THEN Complete(table, resp)
    ELSE [table |-> table, threw |-> TRUE]

\* What became of the most recently requested load once call i of n in
\* flight has finished.  The most recent request is the last in flight as
\* long as it is pending; a call that finishes after it is an older one.
NewestAfter(state, i, n, threw) ==
    IF state = "pending"
    THEN IF i = n
         THEN IF threw THEN "failed" ELSE "shown"
         ELSE "pending"
    ELSE IF state = "shown" THEN "overwritten" ELSE state

\* The rest of loadSpreadsheet once the response of call i is there: loadCSV,
\* then on success repaint and rebuild the colour inputs, `finally` enable
\* the button.
LoadComplete ==
    \E i \in 1..Len(inflight) :
        LET resp == inflight[i]
            res == LoadCSV(specifiedCities, resp)
        IN  /\ inflight' = RemoveAt(inflight, i)
            /\ specifiedCities' = res.table
            /\ loadBtnDisabled' = FALSE
            /\ newest' = NewestAfter(newest, i, Len(inflight), res.threw)
            /\ IF res.threw
               THEN /\ lastOp' = Op("loadFailed", resp.kind)
                    /\ cityCount' = NoCount
                    /\ UNCHANGED <<fillColor, controlKeys>>
               ELSE /\ lastOp' = Op("loadOk", IF specifiedCities = <<>>
                                               THEN "first" ELSE "reload")
                    /\ fillColor' = Repainted(fillLayer, fillColor, res.table,
                                              CsvHeaderColors)
                    /\ controlKeys' = MapKeys(res.table)
                    /\ cityCount' = CountText(Len(res.table))
            /\ UNCHANGED <<CsvHeaderColors, fillLayer, hlVars, indexVars, boot,
                           scriptVars>>

\* A colour input's 'input' event (part_002:296-300).
SetColor(k, value) ==
    /\ k \in 1..Len(controlKeys)
    /\ \/ controlKeys[k] \in DOMAIN CsvHeaderColors
       \/ Cardinality(DOMAIN CsvHeaderColors) < MaxColored
    /\ CsvHeaderColors' = ColorSet(CsvHeaderColors, controlKeys[k], value)
    /\ fillColor' = Repainted(fillLayer, fillColor, specifiedCities, CsvHeaderColors')
    /\ lastOp' = Op("setColor", value)
    /\ UNCHANGED <<specifiedCities, fillLayer, controlKeys, loadBtnDisabled,
                   inflight, newest, hlVars, indexVars, pageVars, scriptVars>>

(***************************************************************************)
(* Search box: part_002:446-461 and 676-729, script.js:241-256, 420-473.   *)
(***************************************************************************)
ResultLimit == 10

\* searchResults.innerHTML = '': no item and no message.
NoResults == [items |-> <<>>, none |-> FALSE]

\* String.prototype.toLowerCase over the letters the inputs use.
ToLowerChar(c) ==
    CASE c = "K" -> "k"
      [] c = "A" -> "a"
      [] c = "U" -> "u"
      [] c = "O" -> "o"
      [] c = "M" -> "m"
      [] OTHER -> c

toLowerCase(s) == [i \in 1..Len(s) |-> ToLowerChar(s[i])]

\* The filter callback of showSearchResults.
Matches(m, normalizedQuery) ==
    \/ Includes(toLowerCase(m.full), normalizedQuery)
    \/ Includes(toLowerCase(m.city), normalizedQuery)
    \/ Includes(toLowerCase(m.pref), normalizedQuery)

\* slice without its end.
SliceAll(s, n) == s

\* Array.prototype.slice(0, n)
Slice(s, n) == SubSeq(s, 1, IF Len(s) < n THEN Len(s) ELSE n)

\* showSearchResults(query): the items shown, or the no-match message.
showSearchResults(query) ==
    LET normalizedQuery == toLowerCase(query)
        results == Slice(SelectSeq(searchData,
                                   LAMBDA m : Matches(m, normalizedQuery)),
                         ResultLimit)
    IN  [items |-> results, none |-> results = <<>>]

\* The input handler showing results whatever the query.
HasQueryAlways(query) == TRUE

\* if (query.length >= 1)
HasQuery(query) == Len(query) >= 1

\* The input listener clearing the highlight on every query.
SearchInputClearing(value) ==
    /\ searchInput' = value
    /\ searchResults' = IF HasQuery(Trim(value))
                        THEN showSearchResults(Trim(value))
                        ELSE NoResults
    /\ HighlightCleared
    /\ lastOp' = Op("search", NoCode)
    /\ UNCHANGED <<tableVars, geojson, searchData, pageVars, scriptVars>>

\* The 'input' listener of the search field.
SearchInput(value) ==
    LET query == Trim(value)
    IN  /\ searchInput' = value
        /\ IF HasQuery(query)
           THEN /\ searchResults' = showSearchResults(query)
                /\ UNCHANGED hlVars
           ELSE /\ searchResults' = NoResults
                /\ HighlightCleared
        /\ lastOp' = Op("search", NoCode)
        /\ UNCHANGED <<tableVars, geojson, searchData, pageVars, scriptVars>>

\* The callback of the 'blur' listener's timer closes the panel.
BlurTimeout ==
    /\ searchResults' = NoResults
    /\ lastOp' = Op("blur", NoCode)
    /\ UNCHANGED <<hlVars, tableVars, geojson, searchData, searchInput, pageVars,
                 scriptVars>>

\* The 'mousedown' listener of the k-th item shown, with flyToMunicipality.
ClickResult(k) ==
    /\ k \in 1..Len(searchResults.items)
    /\ searchResults' = NoResults
    /\ searchInput' = searchResults.items[k].full
    /\ Highlighted(searchResults.items[k].code)
    /\ UNCHANGED <<tableVars, geojson, searchData, pageVars, scriptVars>>

(***************************************************************************)
(* The search-index generator: extractMunicipalities, part_004:93-201.     *)
(*                                                                         *)
(* A coordinate value of the input is a tree: a point (an array whose      *)
(* first two entries are numbers), a list (any other array) or junk (a     *)
(* value that is not an array).  Coordinates are exact integers, counted   *)
(* in steps of 1/Resolution of the fourth decimal place, so that a degree  *)
(* is Decimals * Resolution steps; the emitted centre and bounds are       *)
(* counted in fourth decimal places.  Floating-point error of the sums is  *)
(* not modelled.                                                           *)
(***************************************************************************)
Decimals == 10000

Pt(x, y) == [kind |-> "point", x |-> x, y |-> y, items |-> <<>>]
List(items) == [kind |-> "list", x |-> 0, y |-> 0, items |-> items]
Junk == [kind |-> "junk", x |-> 0, y |-> 0, items |-> <<>>]

\* props.N03_00x || '' for a name, and for the code.
NameOrEmpty(props, prop) == IF prop \in DOMAIN props THEN props[prop] ELSE <<>>
CodeOrEmpty(props) == IF "N03_007" \in DOMAIN props THEN props["N03_007"] ELSE ""

\* The forEach callback over the features (part_004:106-133): one Map entry
\* per code, made by the first feature that carries code and name; every
\* such feature with a geometry appends its coordinates.  Reading a property
\* of a missing properties object raises a TypeError.
RECURSIVE CollectFeatures(_, _, _)
CollectFeatures(map, features, i) ==
    IF i > Len(features)
    THEN [map |-> map, threw |-> FALSE]
    ELSE LET feature == features[i]
             props == feature.props
             code == CodeOrEmpty(props)
             cityName == NameOrEmpty(props, "N03_004")
             gunName == NameOrEmpty(props, "N03_003")
             at == {k \in 1..Len(map) : map[k].code = code}
             entry == [code |-> code,
                       prefName |-> NameOrEmpty(props, "N03_001"),
                       gunName |-> gunName,
                       cityName |-> cityName,
                       fullName |-> gunName \o cityName,
                       coordinates |-> <<>>]
             withEntry == IF at = {} THEN Append(map, entry) ELSE map
             k == CHOOSE n \in 1..Len(withEntry) : withEntry[n].code = code
             pushed == IF feature.hasGeom
                       THEN [withEntry EXCEPT ![k].coordinates =
                                                 Append(@, feature.coordinates)]
                       ELSE withEntry
         IN  IF ~feature.hasProps
             THEN [map |-> map, threw |-> TRUE]
             ELSE IF cityName = <<>> \/ code = ""
                  THEN CollectFeatures(map, features, i + 1)
                  ELSE CollectFeatures(pushed, features, i + 1)

\* The loop taking the first item and putting the entries of an array in
\* front of the rest.
RECURSIVE FlattenQueue(_, _)
FlattenQueue(stack, allCoords) ==
    IF Len(stack) = 0
    THEN allCoords
    ELSE LET item == Head(stack)
         IN  IF item.kind = "junk"
             THEN FlattenQueue(Tail(stack), allCoords)
             ELSE IF item.kind = "point"
                  THEN FlattenQueue(Tail(stack),
                                    Append(allCoords, <<item.x, item.y>>))
                  ELSE FlattenQueue(item.items \o Tail(stack), allCoords)

\* The while loop over the stack (part_004:146-156): the last item is popped;
\* junk is dropped, a point is appended to allCoords, the entries of any
\* other array are pushed in their order.
RECURSIVE FlattenStack(_, _)
FlattenStack(stack, allCoords) ==
    IF Len(stack) = 0
    THEN allCoords
    ELSE LET item == stack[Len(stack)]
             rest == SubSeq(stack, 1, Len(stack) - 1)
         IN  IF item.kind = "junk"
             THEN FlattenStack(rest, allCoords)
             ELSE IF item.kind = "point"
                  THEN FlattenStack(rest, Append(allCoords, <<item.x, item.y>>))
                  ELSE FlattenStack(rest \o item.items, allCoords)

\* The sum of one axis over the points (part_004:165-169).
RECURSIVE SumAxis(_, _)
SumAxis(coords, axis) ==
    IF coords = <<>> THEN 0 ELSE Head(coords)[axis] + SumAxis(Tail(coords), axis)

\* The least value taken from the first point alone.
MinAxisOfFirst(coords, axis) == coords[1][axis]

\* The least and the greatest value of one axis (part_004:170-173).
MinAxis(coords, axis) ==
    CHOOSE v \in {coords[i][axis] : i \in 1..Len(coords)} :
        \A i \in 1..Len(coords) : v <= coords[i][axis]
MaxAxis(coords, axis) ==
    CHOOSE v \in {coords[i][axis] : i \in 1..Len(coords)} :
        \A i \in 1..Len(coords) : v >= coords[i][axis]

\* Math.round with truncation toward minus infinity in its place.
mathFloor(num, den) == num \div den

\* Math.round of the quotient num / den, den > 0: the nearest integer, a
\* half going up.
mathRound(num, den) == (2 * num + den) \div (2 * den)

\* Math.round(v * 10000) / 10000 for a mean sum / n given in steps, and for
\* a single coordinate (part_004:176-184), in fourth decimal places.
RoundedMean(sum, n) == mathRound(sum, n * Resolution)
Rounded(v) == mathRound(v, Resolution)

\* The forEach callback over the Map (part_004:138-195): flatten, skip a
\* unit without points, else push its record.
RECURSIVE Summaries(_, _)
Summaries(map, i) ==
    IF i > Len(map)
    THEN <<>>
    ELSE LET m == map[i]
             allCoords == FlattenStack(m.coordinates, <<>>)
             n == Len(allCoords)
             center == <<RoundedMean(SumAxis(allCoords, 1), n),
                         RoundedMean(SumAxis(allCoords, 2), n)>>
             bounds == << <<Rounded(MinAxis(allCoords, 1)),
                            Rounded(MinAxis(allCoords, 2))>>,
                          <<Rounded(MaxAxis(allCoords, 1)),
                            Rounded(MaxAxis(allCoords, 2))>> >>
         IN  IF n = 0
             THEN Summaries(map, i + 1)
             ELSE << [code |-> m.code, pref |-> m.prefName, gun |-> m.gunName,
                      city |-> m.cityName, full |-> m.fullName,
                      center |-> center, bounds |-> bounds] >>
                  \o Summaries(map, i + 1)

\* The characters of a code, as digits.
CodeUnits(code) ==
    CASE code = "13101" -> <<1, 3, 1, 0, 1>>
      [] code = "13102" -> <<1, 3, 1, 0, 2>>
      [] code = "1310" -> <<1, 3, 1, 0>>
      [] code = "02" -> <<0, 2>>
      [] OTHER -> <<>>

\* a.localeCompare(b) for strings of digits: the first differing character
\* decides, a proper prefix comes first.
RECURSIVE CompareUnits(_, _)
CompareUnits(a, b) ==
    IF a = <<>> /\ b = <<>> THEN 0
    ELSE IF a = <<>> THEN -1
    ELSE IF b = <<>> THEN 1
    ELSE IF Head(a) < Head(b) THEN -1
    ELSE IF Head(a) > Head(b) THEN 1
    ELSE CompareUnits(Tail(a), Tail(b))

localeCompare(a, b) == CompareUnits(CodeUnits(a), CodeUnits(b))

\* Array.prototype.sort by code (stable): each record goes behind the
\* records that do not compare greater.
RECURSIVE SortedInsert(_, _)
SortedInsert(sorted, m) ==
    IF sorted = <<>> THEN <<m>>
    ELSE IF localeCompare(Head(sorted).code, m.code) <= 0
         THEN <<Head(sorted)>> \o SortedInsert(Tail(sorted), m)
         ELSE <<m>> \o sorted

RECURSIVE SortFrom(_, _, _)
SortFrom(sorted, municipalities, i) ==
    IF i > Len(municipalities)
    THEN sorted
    ELSE SortFrom(SortedInsert(sorted, municipalities[i]), municipalities, i + 1)

\* The records left in the order of the Map.
sortOmitted(municipalities) == municipalities

\* municipalities.sort((a, b) => a.code.localeCompare(b.code))
sort(municipalities) == SortFrom(<<>>, municipalities, 1)

extractMunicipalities(features) ==
    LET collected == CollectFeatures(<<>>, features, 1)
    IN  IF collected.threw
        THEN [threw |-> TRUE, municipalities |-> <<>>]
        ELSE [threw |-> FALSE,
              municipalities |-> sort(Summaries(collected.map, 1))]

\* main() (part_004:206-228): search-data.json is written when
\* extractMunicipalities returns, and not when it throws.
Extract ==
    /\ lastOp.op = "init"
    /\ LET result == extractMunicipalities(geojson)
       IN  /\ searchData' = IF result.threw THEN searchData ELSE result.municipalities
           /\ lastOp' = Op("extract", IF result.threw THEN "threw" ELSE "ok")
    /\ UNCHANGED <<hlVars, tableVars, geojson, searchInput, searchResults,
                 pageVars, scriptVars>>

(***************************************************************************)
(* The preprocessing command of part_000:10:                               *)
(*   mapshaper in -filter 'N03_001 != "47"' -simplify 10% keep-shapes      *)
(*     -explode -sort 'this.area' descending -uniq N03_007 -o out          *)
(* A feature is a record of its N03_001, its N03_007 and its polygons,     *)
(* each polygon a sequence of rings, the outer one first.  The input is    *)
(* taken as the shapes -simplify leaves (keep-shapes retains every         *)
(* polygon); this.area is taken as the planar area of the outer ring.      *)
(***************************************************************************)
Shape(pref, code, polygons) ==
    [N03_001 |-> pref, N03_007 |-> code, polygons |-> polygons]

\* Twice the signed area of a ring, by the shoelace sum from vertex i on.
RECURSIVE ShoelaceSum(_, _)
ShoelaceSum(ring, i) ==
    IF i > Len(ring)
    THEN 0
    ELSE LET j == (i % Len(ring)) + 1
         IN  ring[i][1] * ring[j][2] - ring[j][1] * ring[i][2]
             + ShoelaceSum(ring, i + 1)

\* Twice the unsigned area of a polygon's outer ring.
DoubleArea(polygon) ==
    LET sum == ShoelaceSum(polygon[1], 1) IN IF sum < 0 THEN -sum ELSE sum

\* this.area of a shape: the areas of its polygons together, doubled.
RECURSIVE ShapeArea(_, _)
ShapeArea(polygons, k) ==
    IF k > Len(polygons) THEN 0
    ELSE DoubleArea(polygons[k]) + ShapeArea(polygons, k + 1)

\* -filter 'N03_001 != "47"'
FilterPrefecture(features) == SelectSeq(features, LAMBDA f : f.N03_001 # "47")

\* -explode: every polygon of a multi-part feature becomes a feature of its
\* own with the attributes of the feature it came from.
RECURSIVE Explode(_, _)
Explode(features, i) ==
    IF i > Len(features)
    THEN <<>>
    ELSE [k \in 1..Len(features[i].polygons) |->
            Shape(features[i].N03_001, features[i].N03_007,
                  <<features[i].polygons[k]>>)]
         \o Explode(features, i + 1)

\* -sort 'this.area' descending, features of equal area staying in order.
RECURSIVE AreaInsert(_, _)
AreaInsert(sorted, f) ==
    IF sorted = <<>> THEN <<f>>
    ELSE IF ShapeArea(Head(sorted).polygons, 1) >= ShapeArea(f.polygons, 1)
         THEN <<Head(sorted)>> \o AreaInsert(Tail(sorted), f)
         ELSE <<f>> \o sorted

RECURSIVE AreaSortFrom(_, _, _)
AreaSortFrom(sorted, features, i) ==
    IF i > Len(features) THEN sorted
    ELSE AreaSortFrom(AreaInsert(sorted, features[i]), features, i + 1)

\* The features left in their order.
SortSkipped(features) == features

SortByAreaDescending(features) == AreaSortFrom(<<>>, features, 1)

\* -uniq N03_007: the first feature of each code is kept.
RECURSIVE Uniq(_, _)
Uniq(features, i) ==
    IF i > Len(features)
    THEN <<>>
    ELSE (IF \E k \in 1..(i - 1) : features[k].N03_007 = features[i].N03_007
          THEN <<>>
          ELSE <<features[i]>>) \o Uniq(features, i + 1)

\* The command run once over the input file.
Preprocess ==
    /\ lastOp.op = "init"
    /\ output' = Uniq(SortByAreaDescending(Explode(FilterPrefecture(geojson), 1)), 1)
    /\ lastOp' = Op("preprocess", NoCode)
    /\ UNCHANGED <<hlVars, tableVars, indexVars, pageVars, build>>

(***************************************************************************)
(* The tile build script: scripts/build-pmtiles.sh (and its lakes variant, *)
(* part_003).                                                              *)
(***************************************************************************)
\* The script before its first command, in a given environment: the tools
\* on the PATH, whether the input file and the optional lakes file (part_003
\* only; FALSE for build-pmtiles.sh) exist, whether .temp is left over from
\* an earlier run, and the state of the output file.
Start(tools, input, lakes, tempDir, tiles) ==
    [pc |-> "notRun", steps |-> <<>>, status |-> "none", tools |-> tools,
     input |-> input, lakes |-> lakes, tempDir |-> tempDir, tiles |-> tiles]

\* The script is not run.
NotRun == Start({}, FALSE, FALSE, FALSE, "absent")

Tools == {"mapshaper", "tippecanoe"}

\* A step begins: it is recorded in the order of execution.
Begin(step) == Append(build.steps, step)

\* `exit 1`, or under `set -e` (line 19) the failure of a command: the
\* script ends there with a non-zero status.  No trap is installed.
Exit(run) == [run EXCEPT !.pc = "exited", !.status = "1"]

Frame(step) ==
    /\ lastOp' = Op("build", step)
    /\ UNCHANGED <<hlVars, tableVars, indexVars, pageVars, output>>

\* Step 1 (lines 67-89): both tools must be on the PATH.
CheckTools ==
    /\ build.pc = "notRun"
    /\ LET run == [build EXCEPT !.steps = Begin("tools")]
       IN  build' = IF build.tools # Tools
                    THEN Exit(run)
                    ELSE [run EXCEPT !.pc = "toolsChecked"]
    /\ Frame("tools")

\* Step 2 (lines 94-102): the input file must exist.
CheckInput ==
    /\ build.pc = "toolsChecked"
    /\ LET run == [build EXCEPT !.steps = Begin("input")]
       IN  build' = IF ~build.input
                    THEN Exit(run)
                    ELSE [run EXCEPT !.pc = "inputChecked"]
    /\ Frame("input")

\* Step 3 (lines 107-110): mkdir -p, which may fail.
MakeTempDir ==
    /\ build.pc = "inputChecked"
    /\ LET run == [build EXCEPT !.steps = Begin("mkdir")]
       IN  \E ok \in BOOLEAN :
             build' = IF ok
                      THEN [run EXCEPT !.pc = "tempReady", !.tempDir = TRUE]
                      ELSE Exit(run)
    /\ Frame("mkdir")

\* Step 4 (lines 115-134): mapshaper writes .temp/processed.geojson, or fails.
Mapshaper ==
    /\ build.pc = "tempReady"
    /\ LET run == [build EXCEPT !.steps = Begin("mapshaper")]
       IN  \E ok \in BOOLEAN :
             build' = IF ok
                      THEN [run EXCEPT !.pc = IF build.lakes THEN "lakesNext"
                                                             ELSE "processed"]
                      ELSE Exit(run)
    /\ Frame("mapshaper")

\* The lakes step of the variant (part_003:160-183), run when the lakes file
\* exists.
MapshaperLakes ==
    /\ build.pc = "lakesNext"
    /\ LET run == [build EXCEPT !.steps = Begin("lakes")]
       IN  \E ok \in BOOLEAN :
             build' = IF ok THEN [run EXCEPT !.pc = "processed"] ELSE Exit(run)
    /\ Frame("lakes")

\* Step 5 (lines 139-157): tippecanoe --force writes the output file; a
\* failed run leaves the old file or a partial one.
Tippecanoe ==
    /\ build.pc = "processed"
    /\ LET run == [build EXCEPT !.steps = Begin("tippecanoe")]
       IN  \/ build' = [run EXCEPT !.pc = "tiled", !.tiles = "new"]
           \/ \E left \in {build.tiles, "partial"} :
                 build' = Exit([run EXCEPT !.tiles = left])
    /\ Frame("tippecanoe")

\* Step 6 (lines 162-165) and the end of the script: rm -rf .temp.
Cleanup ==
    /\ build.pc = "tiled"
    /\ build' = [build EXCEPT !.steps = Begin("cleanup"), !.tempDir = FALSE,
                               !.pc = "done", !.status = "0"]
    /\ Frame("cleanup")

(***************************************************************************)
(* Inputs.                                                                 *)
(***************************************************************************)
HA == <<"A">>
HB == <<"B">>
HPrefName == PrefToken \o <<"mei">>
HInner == <<"A">> \o PrefToken
HNear == <<"to", "do", "fu">>

HeaderLists == {<<HA, HB>>, <<HPrefName, HA>>, <<HB, HInner>>, <<HNear>>}

CellPool == {<<>>, <<" ">>, <<" ", "x", " ">>, <<"y">>}

Csv(headers, rows) == [kind |-> "csv", headers |-> headers, rows |-> rows]
Row(cells) == [cells |-> cells, extra |-> FALSE]
RowExtra(cells) == [cells |-> cells, extra |-> TRUE]

\* The rows of k fields under `headers`, fields drawn from CellPool.
RowsOf(k) == {Row(c) : c \in [1..k -> CellPool]}

\* The row sequences with at most `budget` fields in all.
RECURSIVE RowSeqs(_, _)
RowSeqs(width, budget) ==
    {<<>>} \cup
    UNION {{<<r>> \o rest : r \in RowsOf(k), rest \in RowSeqs(width, budget - k)} :
             k \in 1..(IF width < budget THEN width ELSE budget)}

\* The same, ended by a line with more fields than the header has (the rows
\* after the one that throws are never read).
ThrowingRowSeqs(width, budget) ==
    IF budget < width
    THEN {}
    ELSE {s \o <<RowExtra(c)>> :
            s \in RowSeqs(width, budget - width), c \in [1..width -> CellPool]}

FailedResponses ==
    {[kind |-> k, headers |-> <<>>, rows |-> <<>>] :
       k \in {"fetchError", "notOk", "parserError"}}

CsvResponses ==
    UNION {{Csv(h, rows) :
              rows \in RowSeqs(Len(h), MaxCells) \cup ThrowingRowSeqs(Len(h), MaxCells)} :
             h \in HeaderLists}

TableResponses == CsvResponses \cup FailedResponses

\* A header of i characters, one per column of a wide sheet.
WideHeader(i) == [j \in 1..i |-> "H"]
WideCsv == Csv([i \in 1..WideCols |-> WideHeader(i)],
               <<Row([i \in 1..WideCols |-> <<"x">>])>>)

ColorResponses ==
    { Csv(<<HA, HB>>, <<Row(<<<<"x">>, <<"x">>>>)>>),
      Csv(<<HA, HB>>, <<Row(<<<<>>, <<"y">>>>), Row(<<<<"x", "y">>>>)>>),
      Csv(<<HB>>, <<Row(<<<<"y">>>>)>>),
      Csv(<<HA, HB>>, <<RowExtra(<<<<"y">>, <<>>>>)>>),
      Csv(<<HB>>, <<RowExtra(<<<<" ">>>>)>>),
      WideCsv,
      [kind |-> "notOk", headers |-> <<>>, rows |-> <<>>] }

\* Sheets that differ in their table, and a fetch that fails.
OverlapResponses ==
    { Csv(<<HA>>, <<Row(<<<<"x">>>>)>>),
      Csv(<<HA, HB>>, <<Row(<<<<"x">>, <<"y">>>>)>>),
      Csv(<<HB>>, <<Row(<<<<"y">>>>)>>),
      [kind |-> "notOk", headers |-> <<>>, rows |-> <<>>] }

UserColors == {"#ff0000"}

\* Map features: N03_003 (county) and N03_004 (city), each possibly absent.
Features ==
    UNION {[props -> {<<"x">>, <<"y">>}] : props \in SUBSET {"N03_003", "N03_004"}}

\* A record of the search index.
Unit(code, pref, gun, city, center, bounds) ==
    [code |-> code, pref |-> pref, gun |-> gun, city |-> city,
     full |-> gun \o city, center |-> center, bounds |-> bounds]

Origin == <<0, 0>>
Osaka == <<"O", "s", "a", "k", "a">>
Mie == <<"M", "i", "e">>

\* Two units; the second has a county, and "ak" occurs only in its full name.
SmallIndex ==
    << Unit("13101", Mie, <<>>, <<"K", "i", "t", "a">>, Origin, <<Origin, Origin>>),
       Unit("13102", Mie, <<"A">>, <<"k", "u">>, Origin, <<Origin, Origin>>) >>

\* IndexSize units: all but the second contain "ka" in some letter case, the
\* odd ones in the city name and the even ones in the prefecture name.
BigIndex ==
    [i \in 1..IndexSize |->
       Unit(ToString(13100 + i),
            IF i % 2 = 0 /\ i # 2 THEN Osaka ELSE Mie,
            <<>>,
            IF i % 2 = 1 THEN <<"K", "a", "m", "o">> ELSE <<"U", "j", "i">>,
            Origin, <<Origin, Origin>>)]

\* The index the page holds once loadSearchData has returned: empty when the
\* fetch failed.
Indexes ==
    {<<>>, SmallIndex, BigIndex, SubSeq(BigIndex, 1, 3), SubSeq(BigIndex, 2, 4)}

Queries ==
    { <<>>, <<" ">>, <<" ", " ">>, <<"k", "a">>, <<"K", "A">>,
      <<" ", "K", "a", " ">>, <<"a", "k">>, <<"k">>, <<"u", "J", "I">>,
      <<"m", "i", "e">>, <<"o">>, <<"x">>, <<"a", " ", "k">> }

PickQueries == {<<>>, <<" ">>, <<"k">>, <<"x">>}

\* Raw features.  The names of a unit go with its code: 13101 has no county
\* property, 13102 has a county, 1310 has an empty county and the city name
\* of 13102.
Feature(hasProps, props, hasGeom, coordinates) ==
    [hasProps |-> hasProps, props |-> props,
     hasGeom |-> hasGeom, coordinates |-> coordinates]

PropsPool ==
    { [N03_001 |-> Mie, N03_004 |-> <<"x">>, N03_007 |-> "13101"],
      [N03_001 |-> Mie, N03_003 |-> <<"x">>, N03_004 |-> <<"y">>,
       N03_007 |-> "13102"],
      [N03_001 |-> Osaka, N03_003 |-> <<>>, N03_004 |-> <<"y">>,
       N03_007 |-> "1310"],
      [N03_001 |-> Osaka, N03_004 |-> <<"K", "a", "m", "o">>, N03_007 |-> "02"],
      [N03_001 |-> Mie, N03_007 |-> "13101"],
      [N03_001 |-> Mie, N03_004 |-> <<"x">>, N03_007 |-> ""] }

\* d degrees, in steps.
Deg(d) == d * Decimals * Resolution

TriangleA == List(<<List(<<Pt(0, 0), Pt(Deg(1), 0), Pt(0, Deg(1))>>)>>)
TriangleB ==
    List(<<List(<<Pt(Deg(2), Deg(2)), Pt(Deg(3), Deg(2)), Pt(Deg(2), Deg(4))>>)>>)
Square ==
    List(<<List(<<Pt(0, 0), Pt(Deg(2), 0), Pt(Deg(2), Deg(2)), Pt(0, Deg(2))>>)>>)
\* Two polygons whose vertices lie between fourth decimal places.
FineParts ==
    List(<< List(<<List(<<Pt(6, 14), Pt(25, -15)>>)>>),
            List(<<List(<<Pt(34, 35), Junk>>)>>) >>)
\* Arrays that hold no point: entries that are not arrays, an empty ring.
Malformed == List(<<Junk, List(<<Junk>>), List(<<>>)>>)

GeometryPool ==
    { [hasGeom |-> FALSE, coordinates |-> Junk],
      [hasGeom |-> TRUE, coordinates |-> List(<<>>)],
      [hasGeom |-> TRUE, coordinates |-> Malformed],
      [hasGeom |-> TRUE, coordinates |-> Pt(Deg(1), Deg(1))],
      [hasGeom |-> TRUE, coordinates |-> TriangleA],
      [hasGeom |-> TRUE, coordinates |-> TriangleB],
      [hasGeom |-> TRUE, coordinates |-> Square],
      [hasGeom |-> TRUE, coordinates |-> FineParts] }

\* A feature whose properties member is null.
NullProps == Feature(FALSE, [N03_007 |-> ""], TRUE, TriangleA)

FeaturePool ==
    {Feature(TRUE, props, g.hasGeom, g.coordinates) :
       props \in PropsPool, g \in GeometryPool} \cup {NullProps}

Collections == UNION {[1..n -> FeaturePool] : n \in 0..MaxFeatures}

\* Shapes for the preprocessing command: rectangles of different areas.
Rect(w, h) == << << <<0, 0>>, <<w, 0>>, <<w, h>>, <<0, h>> >> >>
PolygonPool == {Rect(1, 1), Rect(2, 1), Rect(3, 2)}

\* One to MaxPolygons different polygons, in any order.
PolygonLists ==
    {ps \in UNION {[1..n -> PolygonPool] : n \in 1..MaxPolygons} :
       \A i, j \in 1..Len(ps) : ps[i] = ps[j] => i = j}

ShapePool ==
    {Shape("13", code, ps) : code \in Codes, ps \in PolygonLists}
      \cup {Shape("47", "47201", <<Rect(3, 2)>>)}

ShapeCollections == UNION {[1..n -> ShapePool] : n \in 0..MaxFeatures}

\* The environments the build script is started in.
Environments ==
    {Start(tools, input, lakes, tempDir, tiles) :
        tools \in SUBSET Tools, input \in BOOLEAN, lakes \in BOOLEAN,
        tempDir \in BOOLEAN, tiles \in {"absent", "old"}}

(***************************************************************************)
(* Specifications.                                                         *)
(***************************************************************************)
\* The page before any index or feature collection is read.
InitPage ==
    /\ highlightedCode = NoCode
    /\ hlLayer = FALSE
    /\ hlFilter = NoFilter
    /\ timers = <<>>
    /\ sinceLast = HighlightDuration + 1
    /\ specifiedCities = <<>>
    /\ CsvHeaderColors = [k \in {} |-> Gray]
    /\ fillLayer = FALSE
    /\ fillColor = NoPaint
    /\ controlKeys = <<>>
    /\ loadBtnDisabled = FALSE
    /\ inflight = <<>>
    /\ newest = "none"
    /\ searchInput = <<>>
    /\ searchResults = NoResults
    /\ cityCount = NoCount
    /\ output = <<>>
    /\ lastOp = Op("init", NoCode)

Init ==
    /\ InitPage
    /\ boot = Listening
    /\ build = NotRun
    /\ geojson = <<>>
    /\ searchData = <<>>

\* The highlight controller: search-result clicks, an emptied search box,
\* timers and time.
NextHighlight ==
    \/ \E code \in Codes : highlightMunicipality(code)
    \/ clearHighlight
    \/ TimerFire
    \/ Tick

SpecHighlight == Init /\ [][NextHighlight]_vars

\* The category table: loads started from the load button, one at a time.
NextTable ==
    \/ ClickLoad(TableResponses)
    \/ LoadComplete

SpecTable == Init /\ [][NextTable]_vars

\* The colour rule on the map: map load, loads, colour changes.
NextColor ==
    \/ MapLoad(ColorResponses)
    \/ ClickLoad(ColorResponses)
    \/ LoadComplete
    \/ \E k \in 1..WideCols, value \in UserColors : SetColor(k, value)

SpecColor == Init /\ [][NextColor]_vars

\* The page from the start of init(): the search data and the map's 'load'
\* arrive in either order, then loads from the button.
InitBoot ==
    /\ InitPage
    /\ boot = Awaiting
    /\ build = NotRun
    /\ geojson = <<>>
    /\ searchData = <<>>

NextBoot ==
    \/ SearchDataArrives(Indexes)
    \/ MapLoad(ColorResponses)
    \/ ClickLoad(ColorResponses)
    \/ LoadComplete

SpecBoot == InitBoot /\ [][NextBoot]_vars

\* Overlapping loads: the map's 'load', the button and the Enter key.
NextOverlap ==
    \/ MapLoad(OverlapResponses)
    \/ ClickLoad(OverlapResponses)
    \/ EnterLoad(OverlapResponses)
    \/ LoadComplete

SpecOverlap == Init /\ [][NextOverlap]_vars

\* The search box over a loaded index: typing and leaving the field.
InitSearch ==
    /\ InitPage
    /\ boot = Listening
    /\ build = NotRun
    /\ geojson = <<>>
    /\ searchData \in Indexes

NextSearch ==
    \/ \E value \in Queries : SearchInput(value)
    \/ BlurTimeout

SpecSearch == InitSearch /\ [][NextSearch]_vars

\* Picking search results: typing, clicking a result, timers and time.
InitPick ==
    /\ InitPage
    /\ boot = Listening
    /\ build = NotRun
    /\ geojson = <<>>
    /\ searchData = SmallIndex

NextPick ==
    \/ \E value \in PickQueries : SearchInput(value)
    \/ \E k \in 1..ResultLimit : ClickResult(k)
    \/ TimerFire
    \/ Tick

SpecPick == InitPick /\ [][NextPick]_vars

\* The generator run once over a raw feature collection.
InitAggregate ==
    /\ InitPage
    /\ boot = Listening
    /\ build = NotRun
    /\ geojson \in Collections
    /\ searchData = <<>>

NextAggregate == Extract

SpecAggregate == InitAggregate /\ [][NextAggregate]_vars

\* The preprocessing command run once over a collection of shapes.
InitPreprocess ==
    /\ InitPage
    /\ boot = Listening
    /\ build = NotRun
    /\ geojson \in ShapeCollections
    /\ searchData = <<>>

NextPreprocess == Preprocess

SpecPreprocess == InitPreprocess /\ [][NextPreprocess]_vars

\* One run of the build script in each environment.
InitBuild ==
    /\ InitPage
    /\ boot = Listening
    /\ build \in Environments
    /\ geojson = <<>>
    /\ searchData = <<>>

NextBuild ==
    \/ CheckTools
    \/ CheckInput
    \/ MakeTempDir
    \/ Mapshaper
    \/ MapshaperLakes
    \/ Tippecanoe
    \/ Cleanup

SpecBuild == InitBuild /\ [][NextBuild]_vars

(***************************************************************************)
(* Properties of the highlight controller.                                 *)
(***************************************************************************)

\* A step in which a pending timer callback runs: only that shortens the queue.
TimerStep == Len(timers') < Len(timers)

\* C1: when the timer armed by highlight(c) fires, the highlight is cleared
\* if activeCode still equals c and is left as it is otherwise; the timer of
\* a superseded highlight(a) leaves activeCode = b.
C1_StaleTimerIsNoOp ==
    [][TimerStep =>
         highlightedCode' = IF highlightedCode = timers[1].code
                            THEN NoCode
                            ELSE highlightedCode]_vars

\* A timer armed for one code has just fired while another code is highlighted.
C1_Witness ==
    /\ lastOp.op = "timer"
    /\ highlightedCode \in Codes
    /\ lastOp.arg \in Codes
    /\ lastOp.arg # highlightedCode

\* C4: at most one expiry timer is pending, and none when the state is idle.
C4_SinglePendingExpiry ==
    /\ Len(timers) <= 1
    /\ highlightedCode = NoCode => Len(timers) = 0

\* C5: a timer removes the highlight only when HighlightDuration seconds have
\* passed since the most recent highlight request.
C5_FullDurationAfterRearm ==
    [][(TimerStep /\ highlightedCode # NoCode /\ highlightedCode' = NoCode)
         => sinceLast >= HighlightDuration]_vars

\* C6: a highlight is never active later than HighlightDuration seconds
\* after the last highlight request.
C6_HighlightEnds == highlightedCode # NoCode => sinceLast <= HighlightDuration

\* The timer of the last request has just ended the highlight, after earlier
\* requests had been made and superseded.
C6_Witness ==
    /\ lastOp.op = "timer"
    /\ highlightedCode = NoCode
    /\ sinceLast = HighlightDuration
    /\ hlLayer

(***************************************************************************)
(* Properties of the category table (SpecTable: one load in flight).       *)
(***************************************************************************)
LoadOkStep == Len(inflight) = 1 /\ lastOp'.op = "loadOk"
LoadFailedStep == lastOp'.op = "loadFailed"

\* The names the rows of a response list under header h: the trimmed,
\* non-empty fields of column h.
ListedUnder(resp, h) ==
    {Trim(resp.rows[r].cells[j]) :
       <<r, j>> \in {p \in (1..Len(resp.rows)) \X (1..Len(resp.headers)) :
                       /\ p[2] <= Len(resp.rows[p[1]].cells)
                       /\ resp.headers[p[2]] = h}} \ {<<>>}

AllHeaders == UNION {{hl[i] : i \in 1..Len(hl)} : hl \in HeaderLists}
KeysOf(table) == {table[i].key : i \in 1..Len(table)}

\* C2: a reload that fails, at whatever point, leaves the category table as
\* it was before the reload.
C2_FailedReloadKeepsTable ==
    [][LoadFailedStep => specifiedCities' = specifiedCities]_vars

\* C8: after a successful reload the table holds the categories of the new
\* rows and nothing else: each category is a header of the new response with
\* at least one listed name, each member is listed under it in the new rows,
\* and each such header is a category once.
C8_ReloadReplacesTable ==
    [][LoadOkStep =>
         LET resp == inflight[1]
             new == specifiedCities'
         IN  /\ \A i \in 1..Len(new) :
                   /\ new[i].members # {}
                   /\ new[i].members \subseteq ListedUnder(resp, new[i].key)
                   /\ \A j \in 1..Len(new) : new[j].key = new[i].key => j = i
             /\ KeysOf(new) =
                  {h \in AllHeaders :
                     ~Includes(h, PrefToken) /\ ListedUnder(resp, h) # {}}]_vars

\* A successful load has just replaced a table that an earlier load had
\* filled, and the new one has a single category.
C8_Witness ==
    /\ lastOp = Op("loadOk", "reload")
    /\ Len(specifiedCities) = 1

\* C10: after a successful load, n is a member of category h exactly when h
\* does not contain the prefecture token, n is not empty and n is the
\* trimmed field under h of some row; no header with the token is a category.
C10_MembersAreTrimmedCells ==
    [][LoadOkStep =>
         LET resp == inflight[1]
             new == specifiedCities'
         IN  \A h \in AllHeaders \cup KeysOf(new) :
               \A n \in CellPool \cup {Trim(c) : c \in CellPool}
                          \cup MembersOrEmpty(new, h) :
                 n \in MembersOrEmpty(new, h)
                   <=> /\ ~Includes(h, PrefToken)
                       /\ n # <<>>
                       /\ \E r \in 1..Len(resp.rows), j \in 1..Len(resp.headers) :
                            /\ j <= Len(resp.rows[r].cells)
                            /\ resp.headers[j] = h
                            /\ Trim(resp.rows[r].cells[j]) = n]_vars

\* A successful load has left a category with two members, one of them the
\* trimmed form of a padded field.
C10_Witness ==
    /\ lastOp.op = "loadOk"
    /\ \E i \in 1..Len(specifiedCities) :
         specifiedCities[i].members = {<<"x">>, <<"y">>}

(***************************************************************************)
(* Properties of the colour rule (SpecColor).                              *)
(***************************************************************************)
CurrentRule == buildColorExpression(specifiedCities, CsvHeaderColors)

\* The positions of the categories that list the feature's compound key.
Matching(table, feature) ==
    {i \in 1..Len(table) : MatchKey(feature) \in table[i].members}

Least(S) == CHOOSE i \in S : \A j \in S : i <= j

\* C3: the rule gives every unit the colour of the first category, in
\* insertion order, that lists its compound key, and gray when none does.
C3_FirstMatchWins ==
    \A f \in Features :
      EvalFill(CurrentRule, f) =
        IF Matching(specifiedCities, f) = {}
        THEN Gray
        ELSE ResolveColor(specifiedCities, CsvHeaderColors,
                          specifiedCities[Least(Matching(specifiedCities, f))].key)

\* Some unit's key is listed by two categories whose colours differ.
C3_Witness ==
    \E f \in Features :
      \E i \in Matching(specifiedCities, f), j \in Matching(specifiedCities, f) :
        /\ i < j
        /\ CurrentRule.conds[i].color # CurrentRule.conds[j].color

\* The member sets of a rule's conditions, in order.
RuleMembers(expr) == [i \in 1..Len(expr.conds) |-> expr.conds[i].members]

\* C7: a failed reload, and a colour change that follows it, leave the rule
\* on the map derived from the table of the last successful load: neither
\* step changes which names the rule puts in which category.
C7_FailedReloadKeepsRule ==
    [][(fillLayer /\ lastOp'.op \in {"loadFailed", "setColor"})
         => RuleMembers(fillColor') = RuleMembers(fillColor)]_vars

\* C9: each category contributes one (member set, colour) pair, in order;
\* its colour is the explicit one if set, else Palette[i mod 8] for the
\* zero-based position i of the category; never undefined.
C9_OneResolvedColorPerCategory ==
    Len(specifiedCities) > 0 =>
      /\ CurrentRule.kind = "case"
      /\ Len(CurrentRule.conds) = Len(specifiedCities)
      /\ \A i \in 1..Len(specifiedCities) :
           /\ CurrentRule.conds[i].members = specifiedCities[i].members
           /\ CurrentRule.conds[i].color # Undefined
           /\ CurrentRule.conds[i].color =
                IF specifiedCities[i].key \in DOMAIN CsvHeaderColors
                THEN CsvHeaderColors[specifiedCities[i].key]
                ELSE Palette[((i - 1) % 8) + 1]

\* A table with more categories than the palette has colours is painted,
\* one category with an explicit colour.
C9_Witness ==
    /\ Len(specifiedCities) > Len(Palette)
    /\ fillLayer
    /\ fillColor = CurrentRule
    /\ \E i \in 1..Len(specifiedCities) :
         specifiedCities[i].key \in DOMAIN CsvHeaderColors


(***************************************************************************)
(* Order of the categories.                                                *)
(***************************************************************************)

\* The column of header h in a response: where the header is first seen in
\* the rows.
ColumnOf(resp, h) ==
    CHOOSE j \in 1..Len(resp.headers) :
        /\ resp.headers[j] = h
        /\ \A k \in 1..(j - 1) : resp.headers[k] # h

\* C11: after a successful load, the categories of the table stand in the
\* order in which their headers are first seen in the rows (column order),
\* also when an earlier column has its first non-empty cell in a later row
\* than a later column does.
C11_CategoriesInHeaderOrder ==
    [][LoadOkStep =>
         LET resp == inflight[1]
             new == specifiedCities'
         IN  \A i, j \in 1..Len(new) :
                i < j => ColumnOf(resp, new[i].key) < ColumnOf(resp, new[j].key)]_vars


(***************************************************************************)
(* Properties of the search box.                                           *)
(***************************************************************************)

\* The query the handler works with, and the records it has to find.
TypedQuery == Trim(searchInput)
ContainsIgnoringCase(s, q) == Includes(toLowerCase(s), toLowerCase(q))
Hits(q) ==
    {i \in 1..Len(searchData) :
       \/ ContainsIgnoringCase(searchData[i].full, q)
       \/ ContainsIgnoringCase(searchData[i].city, q)
       \/ ContainsIgnoringCase(searchData[i].pref, q)}
NthHit(q, n) == CHOOSE i \in Hits(q) : Cardinality({j \in Hits(q) : j < i}) = n - 1

\* C13: for a non-empty query the items shown are the first ResultLimit (or
\* all, if fewer) of the records whose full name, city or prefecture contains
\* the query in any letter case, in the order of the index; never more than
\* ResultLimit, never reordered.
C13_FirstTenHitsInIndexOrder ==
    (lastOp.op = "search" /\ TypedQuery # <<>>) =>
        /\ Len(searchResults.items) =
             IF Cardinality(Hits(TypedQuery)) < ResultLimit
             THEN Cardinality(Hits(TypedQuery))
             ELSE ResultLimit
        /\ \A n \in 1..Len(searchResults.items) :
              searchResults.items[n] = searchData[NthHit(TypedQuery, n)]

\* A query in capitals has more hits than are shown, and a record that is not
\* a hit stands in the index before records that are shown.
C13_Witness ==
    /\ lastOp.op = "search"
    /\ TypedQuery = <<"K", "A">>
    /\ Cardinality(Hits(TypedQuery)) > ResultLimit
    /\ Len(searchResults.items) = ResultLimit
    /\ 2 \notin Hits(TypedQuery)
    /\ searchResults.items[2] = searchData[3]

\* C14: an empty or whitespace-only query shows no result, whatever the
\* index, and the handler completes.
C14_BlankQueryShowsNothing ==
    (lastOp.op = "search" /\ TypedQuery = <<>>) => searchResults.items = <<>>

\* A whitespace-only query has been handled over an index with records.
C14_Witness ==
    /\ lastOp.op = "search"
    /\ searchInput = <<" ", " ">>
    /\ Len(searchData) > ResultLimit
    /\ searchResults = NoResults


\* A step of the search field's input listener.
SearchStep == lastOp'.op = "search"

\* What a query must leave alone whatever it is: the index, the category
\* table, the colours.
SearchFrame == UNCHANGED <<searchData, specifiedCities, CsvHeaderColors, fillColor>>

\* C15 as stated: handling any typed query, the empty one included, leaves
\* the index, the table, the colours and the highlight as they were.
C15_QueryIsPureRead ==
    [][SearchStep => SearchFrame /\ UNCHANGED <<highlightedCode, hlFilter>>]_vars

\* C15, amended: every typed query leaves the index, the table and the
\* colours as they were, and typing the same value again shows the same
\* result; a non-empty query leaves the highlight as it was, and an empty or
\* whitespace-only one clears it (no code active, filter reset) without
\* touching the pending timers.
C15_OnlyBlankQueryClearsHighlight ==
    [][SearchStep =>
         /\ SearchFrame
         /\ timers' = timers
         /\ IF Trim(searchInput') # <<>>
            THEN UNCHANGED <<highlightedCode, hlFilter, hlLayer>>
            ELSE highlightedCode' = NoCode /\ (hlLayer => hlFilter' = NoFilter)
         /\ (lastOp.op = "search" /\ searchInput' = searchInput)
               => searchResults' = searchResults]_vars

\* A blank query has been handled while the timer of a highlight is still
\* pending, and no code is highlighted.
C15_Witness ==
    /\ lastOp.op = "search"
    /\ TypedQuery = <<>>
    /\ hlLayer
    /\ timers # <<>>
    /\ timers[Len(timers)].remaining = HighlightDuration
    /\ highlightedCode = NoCode


(***************************************************************************)
(* Properties of the search-index generator.                               *)
(***************************************************************************)

\* The generator has run; it has run and written the index.
Extracted == lastOp.op = "extract"
Written == lastOp = Op("extract", "ok")

\* The features of the collection that carry both the code c and a name.
Carrying(c) ==
    {i \in 1..Len(geojson) :
       /\ geojson[i].hasProps
       /\ c # ""
       /\ CodeOrEmpty(geojson[i].props) = c
       /\ NameOrEmpty(geojson[i].props, "N03_004") # <<>>}

\* The points of a coordinate value, depth first.
RECURSIVE VerticesOf(_)
RECURSIVE VerticesOfItems(_, _)
VerticesOf(node) ==
    IF node.kind = "point" THEN << <<node.x, node.y>> >>
    ELSE IF node.kind = "junk" THEN <<>>
    ELSE VerticesOfItems(node.items, 1)
VerticesOfItems(items, k) ==
    IF k > Len(items) THEN <<>>
    ELSE VerticesOf(items[k]) \o VerticesOfItems(items, k + 1)

\* All vertices of the features carrying code c, from feature i on.
RECURSIVE UnitVerticesFrom(_, _)
UnitVerticesFrom(c, i) ==
    IF i > Len(geojson) THEN <<>>
    ELSE (IF i \in Carrying(c) /\ geojson[i].hasGeom
          THEN VerticesOf(geojson[i].coordinates)
          ELSE <<>>) \o UnitVerticesFrom(c, i + 1)
UnitVertices(c) == UnitVerticesFrom(c, 1)

InputCodes == {CodeOrEmpty(geojson[i].props) : i \in 1..Len(geojson)}
RecordsOf(c) == {k \in 1..Len(searchData) : searchData[k].code = c}

RECURSIVE Total(_, _)
Total(pts, axis) == IF pts = <<>> THEN 0 ELSE Head(pts)[axis] + Total(Tail(pts), axis)

Abs(v) == IF v < 0 THEN -v ELSE v

\* out, in fourth decimal places, is a multiple of 0.0001 nearest to num/den
\* steps.
NearestTo(out, num, den) == 2 * Abs(out * den * Resolution - num) <= den * Resolution

\* C12: for every unit of the index and every feature of that unit, the key
\* the colour rule tests is county-or-empty followed by city-or-empty and
\* equals the unit's full name; a category holding the full name matches the
\* feature, and for a feature with a county a category holding the city name
\* alone does not.
C12_MatchKeyIsFullName ==
    Written =>
      \A k \in 1..Len(searchData) : \A i \in Carrying(searchData[k].code) :
         LET props == geojson[i].props
             county == NameOrEmpty(props, "N03_003")
             city == NameOrEmpty(props, "N03_004")
             OnlyCategory(name) == <<[key |-> HA, members |-> {name}]>>
             Fill(name) ==
                 EvalFill(buildColorExpression(OnlyCategory(name), CsvHeaderColors),
                          props)
         IN  /\ MatchKey(props) = county \o city
             /\ MatchKey(props) = searchData[k].full
             /\ Fill(searchData[k].full) # Gray
             /\ county # <<>> => Fill(city) = Gray

\* A unit with a county is in the index under its compound name.
C12_Witness ==
    /\ Written
    /\ \E k \in 1..Len(searchData) :
          /\ searchData[k].gun = <<"x">>
          /\ searchData[k].full = <<"x", "y">>
          /\ Carrying(searchData[k].code) # {}

\* C16: the index holds exactly one record for each code that some feature
\* carries together with a name and that has at least one point over all
\* such features, and no other record.
C16_OneRecordPerCodeWithPoints ==
    Extracted =>
      \A c \in InputCodes \cup {searchData[k].code : k \in 1..Len(searchData)} :
         Cardinality(RecordsOf(c)) =
            IF Carrying(c) # {} /\ UnitVertices(c) # <<>> THEN 1 ELSE 0

\* C17: the generator completes without an error whatever features lack a
\* code, a name, the properties object or a usable geometry, and the centre
\* of every unit is the mean over the features that carry its code and a
\* name, so that a skipped feature contributes no point.
C17_BadFeaturesAreSkipped ==
    Extracted =>
      /\ lastOp.arg = "ok"
      /\ \A k \in 1..Len(searchData) :
            LET pts == UnitVertices(searchData[k].code)
            IN  /\ pts # <<>>
                /\ \A axis \in 1..2 :
                      NearestTo(searchData[k].center[axis], Total(pts, axis), Len(pts))


\* a comes before b in lexicographic order: at the first position where
\* they differ a has the lesser character, or a is a proper prefix of b.
LexLess(a, b) ==
    \E n \in 1..(Len(b)) :
       /\ \A j \in 1..(n - 1) : j <= Len(a) /\ a[j] = b[j]
       /\ \/ n = Len(a) + 1
          \/ n <= Len(a) /\ a[n] < b[n]

C19_CentroidIsRoundedMean ==
    Extracted =>
      /\ \A k \in 1..Len(searchData) :
            LET pts == UnitVertices(searchData[k].code)
            IN  \A axis \in 1..2 :
                   NearestTo(searchData[k].center[axis], Total(pts, axis), Len(pts))
      /\ (Len(geojson) = 1 /\ Len(searchData) = 1 /\ geojson[1].coordinates = Square)
            => searchData[1].center = <<Decimals, Decimals>>

\* Two triangles of three points each, carrying one code, gave one unit
\* whose centre is the mean of the six points: (8/6, 9/6) = (1.3333, 1.5).
C19_Witness ==
    /\ Written
    /\ Len(geojson) = 2
    /\ geojson[1].coordinates = TriangleA
    /\ geojson[2].coordinates = TriangleB
    /\ Len(searchData) = 1
    /\ Len(UnitVertices(searchData[1].code)) = 6
    /\ searchData[1].center = <<13333, 15000>>

RECURSIVE UnitCoordinatesFrom(_, _)
UnitCoordinatesFrom(c, i) ==
    IF i > Len(geojson) THEN <<>>
    ELSE (IF i \in Carrying(c) /\ geojson[i].hasGeom
          THEN <<geojson[i].coordinates>>
          ELSE <<>>) \o UnitCoordinatesFrom(c, i + 1)
UnitCoordinates(c) == UnitCoordinatesFrom(c, 1)

\* What the generator's loop makes of the coordinate values of code c.
Flattened(c) == FlattenStack(UnitCoordinates(c), <<>>)

\* A flat sequence of points as one coordinate value, and its flattening.
AsFlatValue(pts) == List([n \in 1..Len(pts) |-> Pt(pts[n][1], pts[n][2])])
FlattenedAgain(pts) == FlattenStack(<<AsFlatValue(pts)>>, <<>>)

Reverse(seq) == [n \in 1..Len(seq) |-> seq[Len(seq) + 1 - n]]

\* C21 as stated: the flattened points of a unit are its points in
\* depth-first order, and flattening the flat result again returns it.
C21_FlattenIsDepthFirst ==
    Extracted =>
      \A c \in InputCodes :
         /\ Flattened(c) = UnitVertices(c)
         /\ FlattenedAgain(Flattened(c)) = Flattened(c)

\* C21, amended: the flattened points of a unit are all its points, each as
\* often as it occurs, in the reverse of depth-first order; flattening an
\* already flat sequence returns the same points in reverse order, and
\* flattening that once more returns the sequence itself.
C21_FlattenIsReversedDepthFirst ==
    Extracted =>
      \A c \in InputCodes :
         /\ Flattened(c) = Reverse(UnitVertices(c))
         /\ FlattenedAgain(Flattened(c)) = Reverse(Flattened(c))
         /\ FlattenedAgain(FlattenedAgain(Flattened(c))) = Flattened(c)

\* A unit of two features was written whose flattened points are not in
\* depth-first order.
C21_Witness ==
    /\ Written
    /\ Len(geojson) = 2
    /\ Len(searchData) = 1
    /\ Len(UnitCoordinates(searchData[1].code)) = 2
    /\ Len(Flattened(searchData[1].code)) = 6
    /\ Flattened(searchData[1].code) # UnitVertices(searchData[1].code)


(***************************************************************************)
(* The rendered highlight.                                                 *)
(***************************************************************************)

Preprocessed == lastOp.op = "preprocess"

\* The input features the prefecture filter lets through.
Retained == {i \in 1..Len(geojson) : geojson[i].N03_001 # "47"}

\* Polygon k of input feature i is in the output, under the feature's code.
Kept(i, k) ==
    \E n \in 1..Len(output) :
       /\ output[n].N03_007 = geojson[i].N03_007
       /\ output[n].polygons = <<geojson[i].polygons[k]>>

\* Every threshold that could tell two polygons of the inputs apart.
Thresholds == 0..(DoubleArea(Rect(3, 2)) + 1)

C24_BootCompletesInEitherOrder ==
    (boot.listening /\ boot.mapLoaded) => (fillLayer /\ newest # "none")


(***************************************************************************)
(* C25.  When loads overlap, the table and the colour rule left once all   *)
(* of them have finished are those of the most recently requested one,     *)
(* whatever the order of the responses: a load that finishes last while    *)
(* the result of the most recent request is showing changes neither.       *)
(***************************************************************************)
LoadEnds == lastOp'.op \in {"loadOk", "loadFailed"}

C25_LastRequestedWins ==
    [][(newest = "shown" /\ LoadEnds /\ inflight' = <<>>)
         => (specifiedCities' = specifiedCities /\ fillColor' = fillColor)]_vars

(***************************************************************************)
(* C26.  The load button is disabled exactly while a load is in flight:    *)
(* disabled whenever at least one is, enabled once none is.                *)
(***************************************************************************)
C26_ButtonDisabledWhileLoading ==
    loadBtnDisabled <=> (inflight # <<>>)


(***************************************************************************)
(* C27.  Whenever the fill layer exists, its fill-color rule is the rule   *)
(* built from the current table and the current colour assignment.         *)
(***************************************************************************)
C27_RuleFollowsTableAndColors ==
    fillLayer => fillColor = buildColorExpression(specifiedCities, CsvHeaderColors)


(***************************************************************************)
(* C28.  After a successful load the count shown as the number of selected *)
(* municipalities is the number of distinct names that are members of at   *)
(* least one category of the table.                                        *)
(***************************************************************************)
C28_CountIsDistinctNames ==
    lastOp.op = "loadOk"
        => cityCount = CountText(Cardinality(AllMembers(specifiedCities)))


(***************************************************************************)
(* C29.  A reload, successful or failed, leaves the explicit colour        *)
(* assignment unchanged, and a colour chosen for a category name before    *)
(* the reload is the resolved colour of the category of that name after    *)
(* it; a colour change leaves the table unchanged and changes the resolved *)
(* colour of no category but the one it is made for.                       *)
(***************************************************************************)
Resolved(table, colors, i) == ResolveColor(table, colors, table[i].key)

C29_ReloadAndColorChangeFrames ==
    [][/\ LoadEnds =>
            /\ CsvHeaderColors' = CsvHeaderColors
            /\ \A i \in 1..Len(specifiedCities') :
                 specifiedCities'[i].key \in DOMAIN CsvHeaderColors
                   => Resolved(specifiedCities', CsvHeaderColors', i)
                        = CsvHeaderColors[specifiedCities'[i].key]
       /\ lastOp'.op = "setColor" =>
            /\ specifiedCities' = specifiedCities
            /\ \E k \in DOMAIN CsvHeaderColors' :
                 \A i \in 1..Len(specifiedCities) :
                   specifiedCities[i].key # k
                     => Resolved(specifiedCities', CsvHeaderColors', i)
                          = Resolved(specifiedCities, CsvHeaderColors, i)]_vars

\* A reload has finished with a table of several categories, one of them
\* carrying a colour chosen before, and the map is painted with it.
C29_Witness ==
    /\ lastOp = Op("loadOk", "reload")
    /\ Len(specifiedCities) >= 2
    /\ fillLayer
    /\ \E i \in 1..Len(specifiedCities) :
         /\ specifiedCities[i].key \in DOMAIN CsvHeaderColors
         /\ fillColor.kind = "case"
         /\ fillColor.conds[i].color = CsvHeaderColors[specifiedCities[i].key]

(***************************************************************************)
(* C30.  The build script runs its steps strictly in the order tool check, *)
(* input check, temp-directory creation, mapshaper preprocessing,          *)
(* tippecanoe tiling, cleanup; and whenever it has ended after the temp    *)
(* directory was created, the temp directory has been removed.             *)
(***************************************************************************)
StepOrder == <<"tools", "input", "mkdir", "mapshaper", "tippecanoe", "cleanup">>

NotLakes(step) == step # "lakes"

\* The steps run so far, the optional lakes preprocessing left out.
MainSteps == SelectSeq(build.steps, NotLakes)

Ended == build.pc \in {"exited", "done"}

\* mapshaper has begun, so mkdir -p had succeeded.
TempDirWasCreated == \E i \in 1..Len(build.steps) : build.steps[i] = "mapshaper"

C30_OrderedStepsAndCleanup ==
    /\ Len(MainSteps) <= Len(StepOrder)
    /\ MainSteps = SubSeq(StepOrder, 1, Len(MainSteps))
    /\ (Ended /\ TempDirWasCreated) => ~build.tempDir


====
